---- MODULE Spec2Model ----
(***************************************************************************)
(* The LinkedIn campaign workflow of Backend/integrated_market_easy.py:    *)
(* a LangGraph StateGraph compiled with an in-memory checkpointer and      *)
(* interrupt_before = [human_review_node], driven by the two HTTP handlers *)
(* linkedin_chat and linkedin_process.  Each handler is a synchronous      *)
(* FastAPI endpoint, so requests run on pool threads and interleave at the *)
(* checkpointer calls; a worker below is one such pool thread.             *)
(*                                                                         *)
(* A Python dict is a function whose DOMAIN is the set of keys present.    *)
(* A checkpoint is [exists, values, next]: the channel values of the       *)
(* thread and the node the graph will run next (END when it has none).     *)
(***************************************************************************)
EXTENDS Naturals, Sequences, FiniteSets, TLC

\* ------------------------------------------------------------------ bounds
MaxReq == 3      \* requests accepted in one run
MaxReq2 == 2     \* requests accepted in one run over two session ids
MaxPitchReq == 3 \* pitch requests in one run of the pitch generator
MaxCalls == 4    \* calls accepted in one run of the pitch simulators

Threads == {"t1", "t2"}    \* the thread ids the checkpointer may hold
Workers == {"w1", "w2"}    \* the pool threads that serve requests

\* ------------------------------------------------------------- the graph
START == "__start__"
END == "__end__"
Nodes == {"chat_node", "campaign_node", "post_node", "human_review_node",
          "refinement_node", "webhook_node"}
entry_point == "chat_node"
\* Faulty variant: the graph is compiled without interrupt_before.
interrupt_before_none == {}

interrupt_before == {"human_review_node"}

Empty == <<>>
LINKEDIN_HARDCODED_CONTEXT == [company_name |-> "MarketAI"]

Get(d, k, default) == IF k \in DOMAIN d THEN d[k] ELSE default

\* Faulty variant: the state is replaced by the output.
Merge_replaces(S, O) == O

\* The state reducer of a TypedDict StateGraph: every key is a last-value
\* channel, so a node's output overwrites exactly the keys it names.
Merge(S, O) ==
    [k \in (DOMAIN S) \cup (DOMAIN O) |-> IF k \in DOMAIN O THEN O[k] ELSE S[k]]

\* --------------------------------------------------- generation backend
\* What groq_llm.invoke returns is a text: here a sequence of tokens, an
\* optional opening fence, a body and an optional closing fence.  A body is
\* either a JSON object or text that json.loads rejects.  "fence_json" is the
\* text of a fence that names json, "fence" the bare three-backquote fence.
FenceJson == [tok |-> "fence_json"]
Fence == [tok |-> "fence"]
Body(j) == [tok |-> "body", valid |-> TRUE, json |-> j]
Garbage == [tok |-> "body", valid |-> FALSE, json |-> Empty]

Routes == {"chat", "campaign_generation", "post_generation", "other"}
ChatJson == {[route_decision |-> r, assistant_reply |-> "reply"] : r \in Routes}
DraftJson == {[post_text |-> "v1"]}
CampaignJson == {[strategy |-> "s"]}

\* The texts the backend may answer with a JSON object among jsons.
Contents(jsons) ==
    {<<Body(j)>> : j \in jsons}
        \cup {<<FenceJson, Body(j), Fence>> : j \in jsons}
        \cup {<<Garbage>>, <<Fence, Garbage, Fence>>, <<Fence, Garbage>>}

\* An outcome of one backend call: the transport raises, or a text comes back.
Outcomes(jsons) ==
    {[raise |-> TRUE, content |-> <<Garbage>>]}
        \cup {[raise |-> FALSE, content |-> c] : c \in Contents(jsons)}
HookOutcomes == {"ok", "error"}

MissingError == [error |-> "Groq LLM missing"]

ParseError(content) == [error |-> "JSON parse failed", raw_content |-> content]

StripPrefix(content) ==
    IF content # <<>> /\ Head(content) \in {FenceJson, Fence}
    THEN Tail(content) ELSE content

StripSuffix(content) ==
    IF content # <<>> /\ content[Len(content)] = Fence
    THEN SubSeq(content, 1, Len(content) - 1) ELSE content

\* JsonParsingLLMWrapper.invoke, when the backend client llm_client exists
\* and after it has answered content.
JsonInvoke(llm_client, content) ==
    LET stripped == StripSuffix(StripPrefix(content))
    IN  IF ~llm_client THEN MissingError
        ELSE IF Len(stripped) = 1 /\ stripped[1].tok = "body" /\ stripped[1].valid
        THEN stripped[1].json
        ELSE ParseError(stripped)

\* ------------------------------------------------------------ the nodes
\* Faulty variant: the history is started anew at every exchange.
lk_chat_node_resets_history(state, res) ==
    LET reply == Get(res, "assistant_reply", "Hi")
    IN  [chat_history |-> << [role |-> "user", content |-> state["user_input"]],
                             [role |-> "assistant", content |-> reply] >>,
         intent |-> Get(res, "route_decision", "chat"),
         response |-> [chat_reply |-> reply]]

\* Faulty variant: without route_decision the request is taken for a post.
lk_chat_node_default_post(state, res) ==
    LET reply == Get(res, "assistant_reply", "Hi")
        new_history == Get(state, "chat_history", <<>>)
                          \o << [role |-> "user", content |-> state["user_input"]],
                                [role |-> "assistant", content |-> reply] >>
    IN  [chat_history |-> new_history,
         intent |-> Get(res, "route_decision", "post_generation"),
         response |-> [chat_reply |-> reply]]

lk_chat_node(state, res) ==
    LET reply == Get(res, "assistant_reply", "Hi")
        new_history == Get(state, "chat_history", <<>>)
                          \o << [role |-> "user", content |-> state["user_input"]],
                                [role |-> "assistant", content |-> reply] >>
    IN  [chat_history |-> new_history,
         intent |-> Get(res, "route_decision", "chat"),
         response |-> [chat_reply |-> reply]]

lk_campaign_node(state, res) == [response |-> res]

\* Faulty variant: a result that carries an error is not kept as the draft.
lk_post_node_drops_marker(state, res) ==
    IF "error" \in DOMAIN res THEN [approval_status |-> "pending"]
    ELSE [post_draft |-> res, approval_status |-> "pending"]

lk_post_node(state, res) == [post_draft |-> res, approval_status |-> "pending"]

lk_human_review_node(state) == Empty

\* Faulty variant: a refined draft gets a status of its own.
lk_refinement_node_marks_refined(state, res) ==
    [post_draft |-> res, approval_status |-> "refined"]

lk_refinement_node(state, res) == [post_draft |-> res, approval_status |-> "pending"]

\* Faulty variant: a failed delivery is reported as a success.
lk_webhook_node_always_success(state, hook) ==
    [webhook_response |-> [status |-> "success"]]

\* Faulty variant: the delivery outcome is not looked at.
lk_webhook_node_always_error(state, hook) ==
    [webhook_response |-> [status |-> "error", error_message |-> "e"]]

lk_webhook_node(state, hook) ==
    IF hook = "ok"
    THEN [webhook_response |-> [status |-> "success"]]
    ELSE [webhook_response |-> [status |-> "error", error_message |-> "e"]]

\* The keys a node subscripts (state[k]) and so needs present.
Required(node) ==
    CASE node = "chat_node" -> {"user_input"}
      [] node = "campaign_node" -> {"user_input", "context"}
      [] node = "post_node" -> {"user_input", "context"}
      [] OTHER -> {}

CallsLLM(node) == node \in {"chat_node", "campaign_node", "post_node", "refinement_node"}

\* What the collaborators may do when node runs.
LLMOutcomes(node) ==
    CASE node = "chat_node" -> Outcomes(ChatJson)
      [] node = "campaign_node" -> Outcomes(CampaignJson)
      [] node \in {"post_node", "refinement_node"} -> Outcomes(DraftJson)
      [] OTHER -> {[raise |-> FALSE, content |-> <<Garbage>>]}

DeliveryOutcomes(node) == IF node = "webhook_node" THEN HookOutcomes ELSE {"ok"}

\* A node raises on a missing subscripted key or when the backend call raises.
NodeRaises(node, state, llm_client, llm) ==
    \/ ~(Required(node) \subseteq DOMAIN state)
    \/ CallsLLM(node) /\ llm_client /\ llm.raise

NodeOutput(node, state, llm_client, llm, hook) ==
    LET res == JsonInvoke(llm_client, llm.content)
    IN  CASE node = "chat_node" -> lk_chat_node(state, res)
          [] node = "campaign_node" -> lk_campaign_node(state, res)
          [] node = "post_node" -> lk_post_node(state, res)
          [] node = "human_review_node" -> lk_human_review_node(state)
          [] node = "refinement_node" -> lk_refinement_node(state, res)
          [] node = "webhook_node" -> lk_webhook_node(state, hook)

\* --------------------------------------------------------------- routing
\* Faulty variant: every intent but campaign_generation drafts a post.
route_from_chat_default_post(s) ==
    IF Get(s, "intent", "") = "campaign_generation" THEN "campaign_node"
    ELSE "post_node"

\* Faulty variant: the chat edge also looks at approval_status.
route_from_chat_reads_approval(s) ==
    IF Get(s, "intent", "") = "campaign_generation" THEN "campaign_node"
    ELSE IF Get(s, "intent", "") = "post_generation"
              /\ Get(s, "approval_status", "") # "approved" THEN "post_node"
    ELSE END

route_from_chat(s) ==
    IF Get(s, "intent", "") = "campaign_generation" THEN "campaign_node"
    ELSE IF Get(s, "intent", "") = "post_generation" THEN "post_node"
    ELSE END

\* Faulty variant: the two branches of the review edge are swapped.
route_review_inverted(s) ==
    IF Get(s, "approval_status", "") = "approved" THEN "refinement_node"
    ELSE "webhook_node"

route_review(s) ==
    IF Get(s, "approval_status", "") = "approved" THEN "webhook_node"
    ELSE "refinement_node"

\* Faulty variant: a failed delivery is tried again.
NextNode_retries_delivery(node, s) ==
    CASE node = START -> entry_point
      [] node = "chat_node" -> route_from_chat(s)
      [] node = "campaign_node" -> END
      [] node = "post_node" -> "human_review_node"
      [] node = "human_review_node" -> route_review(s)
      [] node = "refinement_node" -> "human_review_node"
      [] node = "webhook_node" ->
            IF Get(s, "webhook_response", Empty) = [status |-> "success"]
            THEN END ELSE "webhook_node"

\* Faulty variant: the edge from refinement back to review is missing.
NextNode_no_loop_back(node, s) ==
    CASE node = START -> entry_point
      [] node = "chat_node" -> route_from_chat(s)
      [] node = "campaign_node" -> END
      [] node = "post_node" -> "human_review_node"
      [] node = "human_review_node" -> route_review(s)
      [] node = "refinement_node" -> END
      [] node = "webhook_node" -> END

\* The one outgoing edge of every node (START's is the entry point).
NextNode(node, s) ==
    CASE node = START -> entry_point
      [] node = "chat_node" -> route_from_chat(s)
      [] node = "campaign_node" -> END
      [] node = "post_node" -> "human_review_node"
      [] node = "human_review_node" -> route_review(s)
      [] node = "refinement_node" -> "human_review_node"
      [] node = "webhook_node" -> END

\* ----------------------------------------------------------- checkpoints
EmptyCheckpoint == [exists |-> FALSE, values |-> Empty, next |-> END]

\* One superstep's commit: the writes of node are merged and its edge run.
Commit(cp, node, out) ==
    LET merged == Merge(cp.values, out)
    IN  [exists |-> TRUE, values |-> merged, next |-> NextNode(node, merged)]

\* graph.update_state(config, values, as_node): the writes are applied as if
\* as_node had just run; the pending node is neither consulted nor checked.
\* Without as_node on a thread where no node has run, the writer is START.
update_state(cp, values, as_node) == Commit(cp, as_node, values)

\* Faulty variant: an input for a thread with no node pending is ignored.
StreamInput_ignores_concluded(cp, input) ==
    IF cp.exists /\ cp.next = END THEN cp ELSE Commit(cp, START, input)

\* Faulty variant: an input for a thread paused before an interrupt_before
\* node is merged and the pending node kept.
StreamInput_keeps_pending(cp, input) ==
    IF cp.exists /\ cp.next \in interrupt_before
    THEN [cp EXCEPT !.values = Merge(@, input)]
    ELSE Commit(cp, START, input)

\* graph.stream(input, ...), first phase: with an input the run starts over
\* at the entry point with the input merged.
StreamInput(cp, input) == Commit(cp, START, input)

\* Faulty variant: a stream without input restarts at the entry point.
StreamResume_restarts(cp) == Commit(cp, START, Empty)

\* graph.stream(None, ...), first phase: the checkpoint is resumed as it is.
StreamResume(cp) == cp

\* What the handlers return: current_state.get(k) for each k; a key that is
\* absent below stands for the None the handler returns.
Project(values, keys) == [k \in keys \cap DOMAIN values |-> values[k]]

ChatKeys == {"intent", "response", "post_draft", "approval_status"}
ProcessKeys == {"post_draft", "webhook_response", "approval_status"}

\* ------------------------------------------------------------- requests
Messages == {"hello"}
NoFeedback == "<None>"
Truthy(s) == s \notin {NoFeedback, ""}

NoReq == [kind |-> "none", thread_id |-> "t1", user_message |-> "",
          user_feedback |-> NoFeedback, approve |-> FALSE]

ChatReqs(T) ==
    {[NoReq EXCEPT !.kind = "chat", !.thread_id = t, !.user_message = m] :
        t \in T, m \in Messages}

\* LinkedInProcessReq: approve defaults to False, user_feedback to None.
ProcessBodies ==
    {[user_feedback |-> NoFeedback, approve |-> TRUE],
     [user_feedback |-> "shorter", approve |-> FALSE],
     [user_feedback |-> "", approve |-> FALSE],
     [user_feedback |-> NoFeedback, approve |-> FALSE]}

ProcessReqs(T) ==
    {[NoReq EXCEPT !.kind = "process", !.thread_id = t,
                   !.user_feedback = b.user_feedback, !.approve = b.approve] :
        t \in T, b \in ProcessBodies}

VARIABLES
    groq_llm,        \* the backend client was created at start-up
    store,           \* MemorySaver: thread id -> latest checkpoint
    pc,              \* worker -> where its handler stands
    req,             \* worker -> the request it serves
    loc,             \* worker -> the checkpoint its stream loop works on
    skip_interrupt,  \* worker -> the loop resumed and has run no step yet
    nreq,            \* requests accepted so far
    overlapped,      \* a request has been accepted while another was in flight
    \* bookkeeping for the properties; no action reads them
    pre,             \* worker -> the thread's checkpoint when the request came
    ran,             \* worker -> the nodes its stream has run
    last,            \* worker -> output, delivery outcome and parse result of its last node
    solo,            \* worker -> no other request on its thread overlapped it
    \* the pitch generator service
    llm_service,     \* the _llm_service singleton: created or not, and its model's max_tokens
    task,            \* request slot -> where its endpoint coroutine stands
    \* the pitch simulators
    sessions,           \* app.py: session id -> session
    pitchlab_sessions,  \* the backend's PitchLab: session id -> session
    call,               \* pool thread -> the chat call it serves
    ncalls,             \* calls accepted so far
    \* bookkeeping for the properties; no action reads it
    arrival             \* the call accepted last, and whether its session had concluded

\* The state of the other applications of the repository, which the LinkedIn
\* handlers never touch.
apps == <<llm_service, task, sessions, pitchlab_sessions, call, ncalls, arrival>>

vars == <<groq_llm, store, pc, req, loc, skip_interrupt, nreq, overlapped, pre, ran, last, solo,
          apps>>

\* ------------------------------------------------- the pitch generator
\* Config.LLM_MAX_TOKENS, with no LLM_MAX_TOKENS in the environment.
LLM_MAX_TOKENS == 2048

TimeLimits == {"30s", "60s", "120s"}

\* PromptBuilder.get_time_limit_config(time_limit)["max_tokens"].
get_time_limit_config(time_limit) ==
    CASE time_limit = "30s"  -> 350
      [] time_limit = "60s"  -> 650
      [] time_limit = "120s" -> 1200
      [] OTHER               -> 650

\* The request slots of the event loop.
Tasks == 1..MaxPitchReq

\* _llm_service is None.
NoService == [created |-> FALSE, max_tokens |-> 0]

\* get_llm_service(): the singleton, created with the configured max_tokens
\* by the first call.
get_llm_service(service) ==
    IF service.created THEN service
    ELSE [created |-> TRUE, max_tokens |-> LLM_MAX_TOKENS]

\* A slot that serves no request.
NoTask == [pc |-> "idle", endpoint |-> "", time_limit |-> "",
           original_max_tokens |-> 0, sent_max_tokens |-> 0]

\* ------------------------------------------------- the pitch simulators
SHARKS == {"Aman Gupta", "Ashneer Grover", "Anupam Mittal", "Peyush Bansal",
           "Vineeta Singh", "Nithin Kamath", "Deepinder Goyal"}

\* The names and session ids the calls carry, and what the user says.
SharkNames == {"Aman Gupta", "Nobody"}
SessionIds == {"s1"}
UserMessages == {"we sell tea"}

\* What listen_for_speech returns: a transcript, or "" when nothing was heard.
Transcripts == {"we sell tea", ""}

\* The pool threads that serve the synchronous endpoints.
Pool == {1, 2}

\* The replies of the model.
Replies == {"Tell me more", "Deal [INVEST]", "I am out", "I'm out"}

\* reply.upper()
Upper(reply) ==
    CASE reply = "Tell me more"  -> "TELL ME MORE"
      [] reply = "Deal [INVEST]" -> "DEAL [INVEST]"
      [] reply = "I am out"      -> "I AM OUT"
      [] reply = "I'm out"       -> "I'M OUT"
      [] OTHER                   -> reply

\* marker in text, for the upper-case texts above.
Contains(text, marker) ==
    CASE text = "DEAL [INVEST]" -> marker = "[INVEST]"
      [] text = "I AM OUT"      -> marker = "I AM OUT"
      [] text = "I'M OUT"       -> marker = "I'M OUT"
      [] OTHER                  -> FALSE

\* app.py: the status after a reply.
SharkStatus(status, reply) ==
    LET reply_upper == Upper(reply)
    IN  IF Contains(reply_upper, "[INVEST]") \/ Contains(reply_upper, "I AM IN")
        THEN "invested"
        ELSE IF \/ Contains(reply_upper, "[OUT]")
                \/ Contains(reply_upper, "I AM OUT")
                \/ Contains(reply_upper, "I'M OUT")
        THEN "out"
        ELSE status

\* The backend's PitchLab: the status after a reply.
PitchLabStatus(status, reply) ==
    IF Contains(Upper(reply), "[INVEST]") \/ Contains(Upper(reply), "I AM IN")
    THEN "invested"
    ELSE IF Contains(Upper(reply), "[OUT]") \/ Contains(Upper(reply), "I'M OUT")
    THEN "out"
    ELSE status

\* The session a start call stores.
NewSession(name) ==
    [shark |-> name,
     messages |-> <<[role |-> "system", content |-> name]>>,
     history |-> <<>>,
     status |-> "active"]

\* session["messages"].append(HumanMessage(...)); session["history"].append("User: ...")
AppendUser(session, text) ==
    [session EXCEPT !.messages = Append(@, [role |-> "human", content |-> text]),
                    !.history = Append(@, [speaker |-> "User", text |-> text])]

\* session["messages"].append(AIMessage(...)); session["history"].append("<shark>: ...")
AppendReply(session, reply) ==
    [session EXCEPT !.messages = Append(@, [role |-> "ai", content |-> reply]),
                    !.history = Append(@, [speaker |-> session.shark, text |-> reply])]

\* Faulty variant: a chat is let in whatever the session's status.
SessionActive_always(session) == TRUE

\* session["status"] == "active"
SessionActive(session) == session.status = "active"

\* A pool thread that serves no chat call.
NoCall == [pc |-> "idle", endpoint |-> "", session_id |-> "", reply |-> ""]

NoArrival == [endpoint |-> "", session_id |-> "", concluded |-> FALSE]

NoStep == [out |-> Empty, hook |-> "ok", res |-> Empty]

Active(w) == pc[w] # "idle"
\* Faulty variant: every request works on the checkpoint of one thread id.
Thread_shared(w) == "t1"

Thread(w) == req[w].thread_id

Init ==
    /\ groq_llm \in BOOLEAN
    /\ store = [t \in Threads |-> EmptyCheckpoint]
    /\ pc = [w \in Workers |-> "idle"]
    /\ req = [w \in Workers |-> NoReq]
    /\ loc = [w \in Workers |-> EmptyCheckpoint]
    /\ skip_interrupt = [w \in Workers |-> FALSE]
    /\ nreq = 0
    /\ overlapped = FALSE
    /\ pre = [w \in Workers |-> EmptyCheckpoint]
    /\ ran = [w \in Workers |-> <<>>]
    /\ last = [w \in Workers |-> NoStep]
    /\ solo = [w \in Workers |-> TRUE]
    /\ llm_service = NoService
    /\ task = [k \in Tasks |-> NoTask]
    /\ sessions = Empty
    /\ pitchlab_sessions = Empty
    /\ call = [c \in Pool |-> NoCall]
    /\ ncalls = 0
    /\ arrival = NoArrival

\* A request can be taken by pool thread w.  The pool hands out w1 before w2
\* (the threads are interchangeable), and the runs explored accept at most
\* one request while another is in flight.
Arrive(w) ==
    /\ ~Active(w)
    /\ w = "w1" \/ Active("w1")
    /\ nreq < MaxReq
    /\ (\E v \in Workers : Active(v)) => ~overlapped
    /\ nreq' = nreq + 1
    /\ UNCHANGED <<groq_llm, apps>>
    /\ overlapped' = (overlapped \/ \E v \in Workers : Active(v))

\* Request r starts on pool thread w.
Accept(w, r) ==
    /\ Arrive(w)
    /\ req' = [req EXCEPT ![w] = r]
    /\ pc' = [pc EXCEPT ![w] = "stream_first"]
    /\ pre' = [pre EXCEPT ![w] = store[r.thread_id]]
    /\ LET overlap == {v \in Workers \ {w} : /\ Active(v) /\ pc[v] # "rejected"
                                              /\ Thread(v) = r.thread_id}
       IN  solo' = [v \in Workers |-> IF v = w THEN overlap = {}
                                      ELSE IF v \in overlap THEN FALSE
                                      ELSE solo[v]]
    /\ UNCHANGED <<loc, skip_interrupt, ran, last>>

\* The handler is left, by return or by an exception: the pool thread is idle.
Leave(w) ==
    /\ pc' = [pc EXCEPT ![w] = "idle"]
    /\ req' = [req EXCEPT ![w] = NoReq]
    /\ loc' = [loc EXCEPT ![w] = EmptyCheckpoint]
    /\ skip_interrupt' = [skip_interrupt EXCEPT ![w] = FALSE]
    /\ pre' = [pre EXCEPT ![w] = EmptyCheckpoint]
    /\ ran' = [ran EXCEPT ![w] = <<>>]
    /\ last' = [last EXCEPT ![w] = NoStep]
    /\ solo' = [solo EXCEPT ![w] = TRUE]

\* POST /api/linkedin/chat, up to the stream call: get_state, and the context
\* seeded on a thread that has no values.
linkedin_chat(w, T) ==
    \E r \in ChatReqs(T) :
        /\ Accept(w, r)
        /\ store' = [store EXCEPT ![r.thread_id] =
                        IF DOMAIN @.values = {}
                        THEN update_state(@, [context |-> LINKEDIN_HARDCODED_CONTEXT], START)
                        ELSE @]

\* What linkedin_process injects, as the review node.
ProcessUpdate(cp, r) ==
    IF r.approve
    THEN update_state(cp, [approval_status |-> "approved"], "human_review_node")
    ELSE update_state(cp, [user_feedback |-> r.user_feedback,
                           approval_status |-> "pending"], "human_review_node")

\* Faulty variant: a request with neither approval nor feedback is let in.
ProcessValid_any(r) == TRUE

ProcessValid(r) == r.approve \/ Truthy(r.user_feedback)

\* POST /api/linkedin/process, up to the stream call: the injected approval
\* or feedback.
linkedin_process(w, T) ==
    \E r \in ProcessReqs(T) :
        /\ ProcessValid(r)
        /\ Accept(w, r)
        /\ store' = [store EXCEPT ![r.thread_id] = ProcessUpdate(@, r)]

\* POST /api/linkedin/process with neither approval nor feedback: the
\* HTTPException (400) is raised before any checkpointer call.
linkedin_process_reject(w, T) ==
    \E r \in ProcessReqs(T) :
        /\ ~ProcessValid(r)
        /\ Arrive(w)
        /\ req' = [req EXCEPT ![w] = r]
        /\ pc' = [pc EXCEPT ![w] = "rejected"]
        /\ pre' = [pre EXCEPT ![w] = store[r.thread_id]]
        /\ UNCHANGED <<store, loc, skip_interrupt, ran, last, solo>>

\* The HTTPException leaves the handler.
http_exception(w) ==
    /\ pc[w] = "rejected"
    /\ Leave(w)
    /\ UNCHANGED <<groq_llm, apps, store, nreq, overlapped>>

\* Faulty variant: no node interrupts the loop.
ShouldInterrupt_never(cp, skip) == FALSE

\* An interrupt_before node stops the loop unless the loop has just resumed.
ShouldInterrupt(cp, skip) == ~skip /\ cp.next \in interrupt_before

\* Faulty variant: the loop is left after its first event.
Stops_at_once(cp, skip) == TRUE

\* The loop stops before its next tick: no node is left to run, or the node
\* to run is an interrupt_before node reached in this run.
Stops(cp, skip) == cp.next = END \/ ShouldInterrupt(cp, skip)

\* graph.stream, first phase: load the checkpoint.  An input restarts the run
\* at the entry point and the input checkpoint is put; None resumes the
\* checkpoint as loaded, and the first node runs without an interrupt check.
stream_first(w) ==
    /\ pc[w] = "stream_first"
    /\ LET cp == store[Thread(w)]
       IN  IF req[w].kind = "chat"
           THEN LET started == StreamInput(cp, [user_input |-> req[w].user_message])
                IN  /\ loc' = [loc EXCEPT ![w] = started]
                    /\ store' = [store EXCEPT ![Thread(w)] = started]
                    /\ skip_interrupt' = [skip_interrupt EXCEPT ![w] = FALSE]
                    /\ pc' = [pc EXCEPT ![w] =
                                 IF Stops(started, FALSE) THEN "get_state" ELSE "stream"]
           ELSE /\ cp.exists
                /\ loc' = [loc EXCEPT ![w] = StreamResume(cp)]
                /\ skip_interrupt' = [skip_interrupt EXCEPT ![w] = TRUE]
                /\ pc' = [pc EXCEPT ![w] =
                             IF Stops(StreamResume(cp), TRUE) THEN "get_state"
                             ELSE "stream"]
                /\ UNCHANGED store
    /\ UNCHANGED <<groq_llm, apps, req, nreq, overlapped, pre, ran, last, solo>>

\* One superstep: the node runs, its output is merged, its edge chooses the
\* next node, and the checkpoint is put; then the loop stops or goes on.
stream_step(w) ==
    /\ pc[w] = "stream"
    /\ LET node == loc[w].next
           state == loc[w].values
       IN  \E llm \in LLMOutcomes(node), hook \in DeliveryOutcomes(node) :
             /\ ~NodeRaises(node, state, groq_llm, llm)
             /\ LET out == NodeOutput(node, state, groq_llm, llm, hook)
                    cp == Commit(loc[w], node, out)
                    res == IF CallsLLM(node) THEN JsonInvoke(groq_llm, llm.content)
                           ELSE Empty
                IN  /\ last' = [last EXCEPT ![w] = [out |-> out, hook |-> hook, res |-> res]]
                    /\ loc' = [loc EXCEPT ![w] = cp]
                    /\ store' = [store EXCEPT ![Thread(w)] = cp]
                    /\ ran' = [ran EXCEPT ![w] = Append(@, node)]
                    /\ pc' = [pc EXCEPT ![w] =
                                 IF Stops(cp, FALSE) THEN "get_state" ELSE "stream"]
    /\ skip_interrupt' = [skip_interrupt EXCEPT ![w] = FALSE]
    /\ UNCHANGED <<groq_llm, apps, req, nreq, overlapped, pre, solo>>

\* The node raises: the exception leaves the stream and the handler.
stream_raise(w) ==
    /\ pc[w] = "stream"
    /\ \E llm \in LLMOutcomes(loc[w].next) : NodeRaises(loc[w].next, loc[w].values, groq_llm, llm)
    /\ Leave(w)
    /\ UNCHANGED <<groq_llm, apps, store, nreq, overlapped>>

\* What the handler returns: get_state after the stream, projected.
Response(w) ==
    Project(store[Thread(w)].values,
            IF req[w].kind = "chat" THEN ChatKeys ELSE ProcessKeys)

\* get_state after the stream, and the response is returned.
handler_return(w) ==
    /\ pc[w] = "get_state"
    /\ Leave(w)
    /\ UNCHANGED <<groq_llm, apps, store, nreq, overlapped>>

\* The session ids the requests of Spec name.
Sessions == {"t1"}

Next ==
    \E w \in Workers :
        \/ linkedin_chat(w, Sessions)
        \/ linkedin_process(w, Sessions)
        \/ linkedin_process_reject(w, Sessions)
        \/ http_exception(w)
        \/ stream_first(w)
        \/ stream_step(w)
        \/ stream_raise(w)
        \/ handler_return(w)

Spec == Init /\ [][Next]_vars

\* The same handlers with requests that name two session ids.
Sessions2 == Threads

Next2 ==
    \E w \in Workers :
        \/ nreq < MaxReq2 /\ linkedin_chat(w, Sessions2)
        \/ nreq < MaxReq2 /\ linkedin_process(w, Sessions2)
        \/ nreq < MaxReq2 /\ linkedin_process_reject(w, Sessions2)
        \/ http_exception(w)
        \/ stream_first(w)
        \/ stream_step(w)
        \/ stream_raise(w)
        \/ handler_return(w)

Spec2 == Init /\ [][Next2]_vars

\* ------------------------------------------- the pitch generator service
\* The LinkedIn runtime takes no step in the runs of the pitch generator.
linkedin_idle == UNCHANGED <<groq_llm, store, pc, req, loc, skip_interrupt, nreq,
                             overlapped, pre, ran, last, solo>>

\* The pitch simulators take no step in the runs of the other applications.
simulators_idle == UNCHANGED <<sessions, pitchlab_sessions, call, ncalls, arrival>>

\* The pitch generator takes no step in the runs of the pitch simulators.
generator_idle == UNCHANGED <<llm_service, task>>

\* llm_service.model.max_tokens = time_config["max_tokens"].
Override(service, time_limit) ==
    [service EXCEPT !.max_tokens = get_time_limit_config(time_limit)]

\* An endpoint coroutine up to its await: the singleton is fetched, the
\* model's max_tokens is saved and overridden, and generate_text is awaited.
\* The slots are taken in order.
PitchStart(k, endpoint, time_limit) ==
    /\ task[k].pc = "idle"
    /\ \A j \in Tasks : j < k => task[j].pc # "idle"
    /\ LET service == get_llm_service(llm_service)
       IN  /\ llm_service' = Override(service, time_limit)
           /\ task' = [task EXCEPT ![k] =
                          [pc |-> "awaiting", endpoint |-> endpoint,
                           time_limit |-> time_limit,
                           original_max_tokens |-> service.max_tokens,
                           sent_max_tokens |-> 0]]
    /\ linkedin_idle /\ simulators_idle

\* POST /api/v1/generate-pitch.
generate_pitch(k) == \E time_limit \in TimeLimits : PitchStart(k, "generate_pitch", time_limit)

\* POST /api/v1/regenerate-pitch.
regenerate_pitch(k) == \E time_limit \in TimeLimits : PitchStart(k, "regenerate_pitch", time_limit)

\* generate_text: chain.ainvoke sends the request to the provider with the
\* max_tokens the shared model holds when the request is built.
generate_text(k) ==
    /\ task[k].pc = "awaiting"
    /\ task' = [task EXCEPT ![k].pc = "generating",
                            ![k].sent_max_tokens = llm_service.max_tokens]
    /\ UNCHANGED llm_service
    /\ linkedin_idle /\ simulators_idle

\* The await is over, by a result or by an exception: the finally clause
\* puts the saved max_tokens back and the endpoint answers.
pitch_finally(k) ==
    /\ \/ task[k].pc = "generating"
       \/ task[k].pc = "awaiting"
    /\ llm_service' = [llm_service EXCEPT !.max_tokens = task[k].original_max_tokens]
    /\ task' = [task EXCEPT ![k] = [NoTask EXCEPT !.pc = "done"]]
    /\ linkedin_idle /\ simulators_idle

NextPitch ==
    \E k \in Tasks :
        \/ generate_pitch(k)
        \/ regenerate_pitch(k)
        \/ generate_text(k)
        \/ pitch_finally(k)

\* The pitch generator starts with no service created; the LinkedIn state
\* stays as it is at start-up.
InitPitch == Init /\ groq_llm

SpecPitch == InitPitch /\ [][NextPitch]_vars

\* ------------------------------------------------- the pitch simulators
\* sessions[id] = session
Put(dict, id, session) == Merge(dict, [k \in {id} |-> session])

\* A call is accepted; it names session id of the dictionary dict.
Accepted(endpoint, id, dict) ==
    /\ ncalls < MaxCalls
    /\ ncalls' = ncalls + 1
    /\ arrival' = [endpoint |-> endpoint, session_id |-> id,
                   concluded |-> id \in DOMAIN dict /\ dict[id].status # "active"]

\* Pool thread c is free; the pool hands out its threads in order.
Free(c) ==
    /\ call[c].pc = "idle"
    /\ \A j \in Pool : j < c => call[j].pc # "idle"

\* The thread goes on to later lines of its handler.
Goto(c, endpoint, id, pc_, reply) ==
    call' = [call EXCEPT ![c] = [pc |-> pc_, endpoint |-> endpoint,
                                 session_id |-> id, reply |-> reply]]

\* The handler is left, by a response or by an exception.
Return(c) == call' = [call EXCEPT ![c] = NoCall]

\* app.py, POST /pitch/start: an unknown shark is refused (400); otherwise a
\* session is stored under a fresh id.
start_pitch ==
    \E name \in SharkNames :
        /\ Accepted("start_pitch", "", sessions)
        /\ IF name \notin SHARKS
           THEN UNCHANGED sessions
           ELSE \E id \in SessionIds \ DOMAIN sessions :
                    sessions' = Put(sessions, id, NewSession(name))
        /\ UNCHANGED <<pitchlab_sessions, call>>
        /\ linkedin_idle /\ generator_idle

\* app.py, POST /pitch/chat up to model.invoke: 404 for an unknown session,
\* the fixed answer for a concluded one, else the user's message is appended.
chat_with_shark(c) ==
    \E id \in SessionIds, user_message \in UserMessages :
        /\ Free(c)
        /\ Accepted("chat_with_shark", id, sessions)
        /\ IF id \notin DOMAIN sessions
           THEN UNCHANGED <<sessions, call>>
           ELSE IF ~SessionActive(sessions[id])
           THEN UNCHANGED <<sessions, call>>
           ELSE /\ sessions' = Put(sessions, id, AppendUser(sessions[id], user_message))
                /\ Goto(c, "chat_with_shark", id, "invoke", "")
        /\ UNCHANGED pitchlab_sessions
        /\ linkedin_idle /\ generator_idle

\* app.py, POST /pitch/chat from model.invoke on: the reply is appended and
\* may conclude the session; an exception of the model is answered by 500.
shark_reply(c) ==
    /\ call[c].pc = "invoke"
    /\ call[c].endpoint = "chat_with_shark"
    /\ \/ \E reply \in Replies :
             sessions' = [sessions EXCEPT ![call[c].session_id] =
                            [AppendReply(@, reply) EXCEPT
                                !.status = SharkStatus(@, reply)]]
       \/ UNCHANGED sessions
    /\ Return(c)
    /\ UNCHANGED <<pitchlab_sessions, ncalls, arrival>>
    /\ linkedin_idle /\ generator_idle

\* app.py, POST /pitch/feedback: 404, 400 for an empty history, or the
\* model's feedback on the history; the session is only read.
get_feedback ==
    \E id \in SessionIds :
        /\ \E c \in Pool : Free(c)
        /\ Accepted("get_feedback", id, sessions)
        /\ UNCHANGED <<sessions, pitchlab_sessions, call>>
        /\ linkedin_idle /\ generator_idle

\* POST /api/pitch-lab/start: a session is stored under a fresh id.
start_pitchlab_session ==
    \E name \in SharkNames :
        /\ Accepted("start_pitchlab_session", "", pitchlab_sessions)
        /\ \E id \in SessionIds \ DOMAIN pitchlab_sessions :
              pitchlab_sessions' = Put(pitchlab_sessions, id, NewSession(name))
        /\ UNCHANGED <<sessions, call>>
        /\ linkedin_idle /\ generator_idle

\* The guard of both PitchLab chat endpoints: HTTPException 400 for an unknown
\* or concluded session.
PitchLabOpen(id) ==
    /\ id \in DOMAIN pitchlab_sessions
    /\ SessionActive(pitchlab_sessions[id])

\* POST /api/pitch-lab/chat up to groq_client.invoke.
chat_pitchlab(c) ==
    \E id \in SessionIds, user_message \in UserMessages :
        /\ Free(c)
        /\ Accepted("chat_pitchlab", id, pitchlab_sessions)
        /\ IF ~PitchLabOpen(id)
           THEN UNCHANGED <<pitchlab_sessions, call>>
           ELSE /\ pitchlab_sessions' =
                      Put(pitchlab_sessions, id,
                          AppendUser(pitchlab_sessions[id], user_message))
                /\ Goto(c, "chat_pitchlab", id, "invoke", "")
        /\ UNCHANGED sessions
        /\ linkedin_idle /\ generator_idle

\* POST /api/pitch-lab/chat from groq_client.invoke on: without a client, or
\* when the client raises, the exception leaves the handler.
pitchlab_reply(c) ==
    /\ call[c].pc = "invoke"
    /\ call[c].endpoint = "chat_pitchlab"
    /\ \/ /\ groq_llm
          /\ \E reply \in Replies :
                pitchlab_sessions' = [pitchlab_sessions EXCEPT ![call[c].session_id] =
                                        [AppendReply(@, reply) EXCEPT
                                            !.status = PitchLabStatus(@, reply)]]
       \/ UNCHANGED pitchlab_sessions
    /\ Return(c)
    /\ UNCHANGED <<sessions, ncalls, arrival>>
    /\ linkedin_idle /\ generator_idle

\* POST /api/pitch-lab/voice-chat up to listen_for_speech.
voice_chat_pitchlab(c) ==
    \E id \in SessionIds :
        /\ Free(c)
        /\ Accepted("voice_chat_pitchlab", id, pitchlab_sessions)
        /\ IF ~PitchLabOpen(id)
           THEN UNCHANGED call
           ELSE Goto(c, "voice_chat_pitchlab", id, "listen", "")
        /\ UNCHANGED <<sessions, pitchlab_sessions>>
        /\ linkedin_idle /\ generator_idle

\* listen_for_speech returns: nothing heard is answered at once, a transcript
\* is appended as the user's message.
voice_listen(c) ==
    /\ call[c].pc = "listen"
    /\ \E user_text \in Transcripts :
          IF user_text = ""
          THEN Return(c) /\ UNCHANGED pitchlab_sessions
          ELSE /\ pitchlab_sessions' =
                     [pitchlab_sessions EXCEPT ![call[c].session_id] = AppendUser(@, user_text)]
               /\ Goto(c, "voice_chat_pitchlab", call[c].session_id, "invoke", "")
    /\ UNCHANGED <<sessions, ncalls, arrival>>
    /\ linkedin_idle /\ generator_idle

\* groq_client.invoke in voice-chat: the reply is appended, then spoken.
voice_reply(c) ==
    /\ call[c].pc = "invoke"
    /\ call[c].endpoint = "voice_chat_pitchlab"
    /\ \/ /\ groq_llm
          /\ \E reply \in Replies :
                /\ pitchlab_sessions' =
                      [pitchlab_sessions EXCEPT ![call[c].session_id] = AppendReply(@, reply)]
                /\ Goto(c, "voice_chat_pitchlab", call[c].session_id, "speak", reply)
       \/ Return(c) /\ UNCHANGED pitchlab_sessions
    /\ UNCHANGED <<sessions, ncalls, arrival>>
    /\ linkedin_idle /\ generator_idle

\* speak_text has returned: the reply may conclude the session.
voice_speak(c) ==
    /\ call[c].pc = "speak"
    /\ pitchlab_sessions' = [pitchlab_sessions EXCEPT ![call[c].session_id].status =
                                PitchLabStatus(@, call[c].reply)]
    /\ Return(c)
    /\ UNCHANGED <<sessions, ncalls, arrival>>
    /\ linkedin_idle /\ generator_idle

\* POST /api/pitch-lab/feedback: 400, or the model's feedback on the history;
\* the session is only read.
get_pitchlab_feedback ==
    \E id \in SessionIds :
        /\ \E c \in Pool : Free(c)
        /\ Accepted("get_pitchlab_feedback", id, pitchlab_sessions)
        /\ UNCHANGED <<sessions, pitchlab_sessions, call>>
        /\ linkedin_idle /\ generator_idle

NextSim ==
    \/ start_pitch
    \/ get_feedback
    \/ start_pitchlab_session
    \/ get_pitchlab_feedback
    \/ \E c \in Pool :
          \/ chat_with_shark(c)
          \/ shark_reply(c)
          \/ chat_pitchlab(c)
          \/ pitchlab_reply(c)
          \/ voice_chat_pitchlab(c)
          \/ voice_listen(c)
          \/ voice_reply(c)
          \/ voice_speak(c)

SpecSim == Init /\ [][NextSim]_vars

\* ------------------------------------------------------------ properties
Last(seq) == seq[Len(seq)]
Approval(values) == Get(values, "approval_status", "")
StreamDone(w) == pc[w] = "get_state"
PausedBeforeReview(cp) == cp.exists /\ cp.next = "human_review_node"

\* linkedin_process performs its update_state on pool thread w in this step.
Injects(w) == pc[w] = "idle" /\ pc'[w] = "stream_first" /\ req'[w].kind = "process"

(* C1: an injection attributed to the review step while another step (or
   none) is pending fails, and leaves the checkpoint as it was. *)
C1_AttributionRejection ==
    [][\A w \in Workers :
          (Injects(w) /\ store[req'[w].thread_id].next # "human_review_node")
              => (pc'[w] = "idle" /\ store' = store)]_vars

\* R is S with exactly the keys of O replaced by O's values.
MergedExactly(S, O, R) ==
    /\ DOMAIN R = (DOMAIN S) \cup (DOMAIN O)
    /\ \A k \in DOMAIN O : R[k] = O[k]
    /\ \A k \in (DOMAIN S) \ (DOMAIN O) : R[k] = S[k]

\* The keys each node is said to write.
Writes(node) ==
    CASE node = "chat_node" -> {"chat_history", "intent", "response"}
      [] node = "campaign_node" -> {"response"}
      [] node \in {"post_node", "refinement_node"} -> {"post_draft", "approval_status"}
      [] node = "webhook_node" -> {"webhook_response"}
      [] OTHER -> {}

\* What a /process request injects.
Injected(r) ==
    IF r.approve THEN [approval_status |-> "approved"]
    ELSE [user_feedback |-> r.user_feedback, approval_status |-> "pending"]

\* A node has run to its end in the stream of pool thread w in this step.
Steps(w) == pc[w] = "stream" /\ Len(ran'[w]) = Len(ran[w]) + 1

(* C11: every committed state is the state before with exactly the keys of
   the node's output, of the stream's input or of the injected values
   replaced; every other key keeps its value and none is cleared.  Each
   node writes only its own keys. *)
C11_ShallowMerge ==
    [][\A w \in Workers :
          /\ Steps(w) =>
                /\ MergedExactly(loc[w].values, last'[w].out, loc'[w].values)
                /\ store'[Thread(w)].values = loc'[w].values
                /\ DOMAIN last'[w].out = Writes(Last(ran'[w]))
          /\ Injects(w) =>
                MergedExactly(store[req'[w].thread_id].values, Injected(req'[w]),
                              store'[req'[w].thread_id].values)
          /\ (pc[w] = "stream_first" /\ pc'[w] # "stream_first" /\ req[w].kind = "chat") =>
                MergedExactly(store[Thread(w)].values,
                              [user_input |-> req[w].user_message],
                              store'[Thread(w)].values)]_vars

C11_Witness ==
    \E w \in Workers :
        /\ ran[w] # <<>> /\ Last(ran[w]) = "refinement_node"
        /\ {"chat_history", "context", "user_feedback"} \subseteq DOMAIN loc[w].values
        /\ store[Thread(w)] = loc[w]

(* C12: an injection for a thread id that has no checkpoint fails, creates no
   checkpoint and runs no node. *)
C12_UnknownSessionRejected ==
    [][\A w \in Workers :
          (Injects(w) /\ ~store[req'[w].thread_id].exists)
              => (pc'[w] = "idle" /\ store' = store)]_vars

(* C13: an injection on a thread paused before review changes only the keys
   it names and leaves the review node the pending node. *)
C13_InjectionKeepsPosition ==
    [][\A w \in Workers :
          (Injects(w) /\ PausedBeforeReview(store[req'[w].thread_id]))
              => /\ MergedExactly(store[req'[w].thread_id].values, Injected(req'[w]),
                                  store'[req'[w].thread_id].values)
                 /\ store'[req'[w].thread_id].next = "human_review_node"]_vars

\* A request with neither approval nor non-empty feedback.
InvalidReview(r) ==
    r.kind = "process" /\ ~r.approve /\ r.user_feedback \in {NoFeedback, ""}

(* C14: a review request with neither approval nor non-empty feedback is
   rejected: it never reaches update_state or the stream, and from its
   arrival to the end of its handler the store is as it was and no node
   runs for it. *)
C14_InvalidReviewRejected ==
    [][\A w \in Workers :
          /\ (pc[w] = "idle" /\ pc'[w] # "idle" /\ InvalidReview(req'[w]))
                => (pc'[w] = "rejected" /\ store' = store)
          /\ (pc[w] = "rejected" /\ pc'[w] # "rejected")
                => (pc'[w] = "idle" /\ store' = store /\ ran[w] = <<>>)]_vars

C14_Witness ==
    \E w \in Workers :
        /\ pc[w] = "rejected"
        /\ PausedBeforeReview(store[Thread(w)])
        /\ store[Thread(w)] = pre[w]

\* The last node pool thread w ran got a text that json.loads rejected.
ParseFailed(w) ==
    /\ ran[w] # <<>>
    /\ CallsLLM(Last(ran[w]))
    /\ Get(last[w].res, "error", "") = "JSON parse failed"

(* C15, as claimed: in every step that calls the backend, chat included, a
   parse failure makes the error marker the step's output and the marker is
   merged into the state. *)
C15_ParseFailureMarker ==
    \A w \in Workers :
        ParseFailed(w) =>
            \E k \in {"response", "post_draft"} \cap DOMAIN last[w].out :
                /\ last[w].out[k] = last[w].res
                /\ loc[w].values[k] = last[w].res

(* C15, amended: a parse failure does not abort the stream.  In the
   campaign, draft and refinement nodes the marker is the node's output
   (response; post_draft with approval_status pending) and the stream goes
   on to the node's edge (END; the pause before review).  In the chat node
   the marker is not stored: the reply is "Hi", intent is "chat" and the
   stream ends at END. *)
C15_ParseFailureAbsorbed ==
    \A w \in Workers :
        ParseFailed(w) =>
            LET node == Last(ran[w])
                values == loc[w].values
            IN  /\ node = "chat_node" =>
                      /\ values["intent"] = "chat"
                      /\ values["response"] = [chat_reply |-> "Hi"]
                      /\ Last(values["chat_history"]).content = "Hi"
                      /\ loc[w].next = END
                /\ node = "campaign_node" =>
                      /\ Get(values, "response", Empty) = last[w].res
                      /\ loc[w].next = END
                /\ node \in {"post_node", "refinement_node"} =>
                      /\ Get(values, "post_draft", Empty) = last[w].res
                      /\ values["approval_status"] = "pending"
                      /\ loc[w].next = "human_review_node"
                /\ StreamDone(w)

C15_Witness ==
    \E w \in Workers :
        ParseFailed(w) /\ ran[w] = <<"chat_node", "post_node">> /\ StreamDone(w)

(* C16: a checkpoint comes to exist for a thread id only in a step that is a
   stream call for that id; update_state creates none. *)
C16_CheckpointExistence ==
    [][\A t \in Threads :
          (~store[t].exists /\ store'[t].exists)
              => \E w \in Workers :
                    /\ pc[w] = "stream_first" /\ pc'[w] # "stream_first"
                    /\ Thread(w) = t]_vars

\* Pool thread w took this step, and the thread id its request names.
Moves(w) == pc'[w] # pc[w] \/ ran'[w] # ran[w]
Target(w) == IF pc[w] = "idle" THEN req'[w].thread_id ELSE req[w].thread_id

(* C17: a step of a request for one thread id leaves the checkpoint of every
   other thread id as it is, and a request that no request for its own id
   overlaps always works on exactly the checkpoint stored for its id,
   whatever requests for other ids do meanwhile. *)
C17_SessionIsolation ==
    [][\A w \in Workers :
          Moves(w) =>
              /\ \A t \in Threads \ {Target(w)} : store'[t] = store[t]
              /\ (solo'[w] /\ pc'[w] \in {"stream", "get_state"})
                    => loc'[w] = store'[Target(w)]]_vars

C17_Witness ==
    \E v, w \in Workers :
        /\ Thread(v) # Thread(w)
        /\ StreamDone(v) /\ PausedBeforeReview(loc[v]) /\ store[Thread(v)] = loc[v]
        /\ StreamDone(w) /\ ran[w] # <<>> /\ loc[w].next = END
        /\ store[Thread(w)] = loc[w]

\* The last node pool thread w ran is the delivery node.
Delivered(w) == ran[w] # <<>> /\ Last(ran[w]) = "webhook_node"

(* C18: a stream runs the delivery node at most once and nothing after it;
   the one outcome of the delivery, success or error with its message, is
   written to webhook_response, and the stream ends at END either way. *)
C18_SingleDelivery ==
    \A w \in Workers :
        /\ \A i \in 1..Len(ran[w]) : ran[w][i] = "webhook_node" => i = Len(ran[w])
        /\ Delivered(w) =>
              /\ last[w].hook = "ok" =>
                    loc[w].values["webhook_response"] = [status |-> "success"]
              /\ last[w].hook = "error" =>
                    loc[w].values["webhook_response"]
                        = [status |-> "error", error_message |-> "e"]
              /\ loc[w].next = END
              /\ StreamDone(w)

C18_Witness ==
    \E w \in Workers :
        Delivered(w) /\ last[w].hook = "error" /\ PausedBeforeReview(pre[w])

(* C19, as claimed: a delivery that fails ends the handler with a failure,
   and the checkpoint is what it was when the request came. *)
C19_DeliveryFailureFatal ==
    [][\A w \in Workers :
          (pc[w] = "stream" /\ loc[w].next = "webhook_node" /\ Moves(w)
           /\ last'[w].hook = "error")
              => (pc'[w] = "idle" /\ store'[Thread(w)] = pre[w])]_vars

(* C19, amended: a delivery that fails is caught by the delivery node: the
   error and its message are recorded in webhook_response, the stream ends
   at END, the checkpoint is saved with no node pending and the handler
   returns the recorded error. *)
C19_DeliveryFailureRecorded ==
    \A w \in Workers :
        (Delivered(w) /\ last[w].hook = "error") =>
            /\ StreamDone(w)
            /\ loc[w].exists /\ loc[w].next = END
            /\ loc[w].values["webhook_response"]["status"] = "error"
            /\ "error_message" \in DOMAIN loc[w].values["webhook_response"]
            /\ solo[w] => /\ store[Thread(w)] = loc[w]
                          /\ Response(w)["webhook_response"]["status"] = "error"

C19_Witness ==
    \E w \in Workers :
        /\ Delivered(w) /\ last[w].hook = "error"
        /\ solo[w] /\ store[Thread(w)].next = END
        /\ "post_draft" \in DOMAIN store[Thread(w)].values

(* C20: a stream that ends without raising leaves its checkpoint with no
   node pending or with the review node pending, never before another
   node; that is the checkpoint stored when no other request on the
   thread overlaps. *)
C20_ReturnsAtPauseOrEnd ==
    \A w \in Workers :
        StreamDone(w) =>
            /\ loc[w].exists
            /\ loc[w].next \in {END, "human_review_node"}
            /\ solo[w] => store[Thread(w)] = loc[w]

C20_Witness ==
    \E w \in Workers :
        StreamDone(w) /\ solo[w] /\ ran[w] = <<"chat_node", "campaign_node">>

History(values) == Get(values, "chat_history", <<>>)

\* A /chat request that found its thread in a checkpoint satisfying the
\* given condition, was not overlapped, and whose stream has ended.
Concluded(cp) == cp.exists /\ cp.next = END
ChatDoneOn(w) == StreamDone(w) /\ solo[w] /\ req[w].kind = "chat"

\* The stream of pool thread w takes its first step, for a /chat request.
ChatStarts(w) ==
    pc[w] = "stream_first" /\ pc'[w] # "stream_first" /\ req[w].kind = "chat"

(* C21, as claimed: a stream with an input on a thread that has no node
   pending runs no node and leaves the checkpoint as it is. *)
C21_ConcludedIgnoresInput ==
    [][\A w \in Workers :
          (ChatStarts(w) /\ Concluded(store[Thread(w)]))
              => (pc'[w] = "get_state" /\ store' = store)]_vars

(* C21, amended: a stream with an input on a thread that has no node pending
   starts a new run at the entry point: the input replaces user_input, the
   chat node runs first and appends the new exchange to chat_history, and
   context is kept. *)
C21_ConcludedRestarts ==
    \A w \in Workers :
        (ChatDoneOn(w) /\ Concluded(pre[w])) =>
            /\ ran[w] # <<>> /\ ran[w][1] = "chat_node"
            /\ loc[w].values["user_input"] = req[w].user_message
            /\ Len(History(loc[w].values)) = Len(History(pre[w].values)) + 2
            /\ SubSeq(History(loc[w].values), 1, Len(History(pre[w].values)))
                  = History(pre[w].values)
            /\ Project(loc[w].values, {"context"}) = Project(pre[w].values, {"context"})

C21_Witness ==
    \E w \in Workers :
        /\ ChatDoneOn(w) /\ Concluded(pre[w])
        /\ Len(History(pre[w].values)) >= 2
        /\ loc[w].next = END

(* C22, as claimed: a stream with an input on a thread paused before review
   goes on from the review node: the chat node does not run and
   chat_history is what it was. *)
C22_InputResumesPending ==
    \A w \in Workers :
        (ChatDoneOn(w) /\ PausedBeforeReview(pre[w])) =>
            /\ \A i \in 1..Len(ran[w]) : ran[w][i] # "chat_node"
            /\ History(loc[w].values) = History(pre[w].values)

(* C22, amended: a stream with an input on a thread paused before review
   drops the pending review and starts at the entry point: the input
   replaces user_input, the chat node runs first and extends chat_history by
   one exchange, and neither the review, the refinement nor the delivery
   node runs in that stream. *)
C22_InputRestartsAtEntry ==
    \A w \in Workers :
        (ChatDoneOn(w) /\ PausedBeforeReview(pre[w])) =>
            /\ ran[w] # <<>> /\ ran[w][1] = "chat_node"
            /\ \A i \in 1..Len(ran[w]) :
                  ran[w][i] \notin {"human_review_node", "refinement_node", "webhook_node"}
            /\ loc[w].values["user_input"] = req[w].user_message
            /\ Len(History(loc[w].values)) = Len(History(pre[w].values)) + 2

C22_Witness ==
    \E w \in Workers :
        /\ ChatDoneOn(w) /\ PausedBeforeReview(pre[w])
        /\ loc[w].next = END /\ "post_draft" \in DOMAIN loc[w].values

IsPrefix(a, b) == Len(a) <= Len(b) /\ SubSeq(b, 1, Len(a)) = a

(* C23: chat_history only grows at its end.  A run of the chat node appends
   the user record and then the assistant record to the history of the state
   it works on; no other node, no stream input and no injection changes
   it; and the stored history of a thread grows by appending under
   requests that do not overlap. *)
C23_HistoryAppendOnly ==
    [][\A w \in Workers :
          /\ (Steps(w) /\ loc[w].next = "chat_node") =>
                LET old == History(loc[w].values)
                    new == History(loc'[w].values)
                IN  /\ Len(new) = Len(old) + 2
                    /\ IsPrefix(old, new)
                    /\ new[Len(old) + 1] =
                          [role |-> "user", content |-> loc[w].values["user_input"]]
                    /\ new[Len(old) + 2].role = "assistant"
          /\ (Steps(w) /\ loc[w].next # "chat_node") =>
                History(loc'[w].values) = History(loc[w].values)
          /\ (Injects(w) \/ ChatStarts(w)) =>
                History(store'[Target(w)].values) = History(store[Target(w)].values)
          /\ (Moves(w) /\ solo[w] /\ solo'[w]) =>
                IsPrefix(History(store[Target(w)].values),
                         History(store'[Target(w)].values))]_vars

C23_Witness ==
    \E w \in Workers :
        /\ ran[w] # <<>> /\ Last(ran[w]) = "chat_node" /\ solo[w]
        /\ Len(History(store[Thread(w)].values)) >= 4
        /\ "post_draft" \in DOMAIN store[Thread(w)].values

\* The nodes said to read context.
ReadsContext == {"campaign_node", "post_node", "refinement_node"}

(* C24: context, once set, never changes, and the campaign, draft and
   refinement nodes are only ever about to run in a state where context is
   set. *)
C24_ContextSetOnce ==
    [][/\ \A t \in Threads :
            "context" \in DOMAIN store[t].values =>
                /\ "context" \in DOMAIN store'[t].values
                /\ store'[t].values["context"] = store[t].values["context"]
       /\ \A w \in Workers :
            (pc'[w] = "stream" /\ loc'[w].next \in ReadsContext)
                => "context" \in DOMAIN loc'[w].values]_vars

(* C25: approval_status, where present, is pending or approved.  The draft
   and refinement nodes set it to pending, no node makes it approved, and
   an injection makes it approved exactly when it carries an approval. *)
C25_ApprovalValues ==
    [][\A w \in Workers :
          /\ \A cp \in {store'[t] : t \in Threads} \cup {loc'[w]} :
                Approval(cp.values) \in {"", "pending", "approved"}
          /\ (Steps(w) /\ loc[w].next \in {"post_node", "refinement_node"}) =>
                Approval(loc'[w].values) = "pending"
          /\ (Steps(w) /\ Approval(loc'[w].values) = "approved") =>
                Approval(loc[w].values) = "approved"
          /\ Injects(w) =>
                (Approval(store'[Target(w)].values) = "approved") = req'[w].approve
          /\ (ChatStarts(w) \/ (Moves(w) /\ solo[w] /\ solo'[w] /\ ~Injects(w))) =>
                (Approval(store'[Target(w)].values) = "approved"
                    => Approval(store[Target(w)].values) = "approved")]_vars

C25_Witness ==
    \E w \in Workers :
        /\ Delivered(w) /\ solo[w] /\ PausedBeforeReview(pre[w])
        /\ Approval(pre[w].values) = "pending"
        /\ Approval(store[Thread(w)].values) = "approved"

\* The nodes a stream has run, a review node it resumed at not counted.
StepsBeyondReview(w) ==
    IF ran[w] # <<>> /\ ran[w][1] = "human_review_node"
    THEN Len(ran[w]) - 1 ELSE Len(ran[w])

(* C28: a stream runs at most two nodes beyond a review node it resumed at,
   and while it is running there is a node for it to run; so it cannot go
   round the graph for ever. *)
C28_AdvanceTerminates ==
    \A w \in Workers :
        /\ StepsBeyondReview(w) <= 2
        /\ pc[w] = "stream" => loc[w].next \in Nodes
        /\ (pc[w] = "stream" /\ ran[w] # <<>>) => loc[w].next \notin interrupt_before

C28_Witness ==
    \E w \in Workers :
        StreamDone(w) /\ ran[w] = <<"human_review_node", "refinement_node">>

(* C29: the delivery node runs only for a request that found its thread
   paused before review, and the draft it sends is the draft of that
   pause. *)
C29_DeliversReviewedDraft ==
    \A w \in Workers :
        (loc[w].next = "webhook_node" \/ Delivered(w)) =>
            /\ PausedBeforeReview(pre[w])
            /\ "post_draft" \in DOMAIN loc[w].values
            /\ loc[w].values["post_draft"] = pre[w].values["post_draft"]

\* The chat node got a result without route_decision: an error marker.
RoutingFailed(w) ==
    /\ ran[w] # <<>> /\ Last(ran[w]) = "chat_node"
    /\ "error" \in DOMAIN last[w].res
    /\ "route_decision" \notin DOMAIN last[w].res

(* C30: when the chat node's result is an error marker, intent is chat, the
   reply "Hi" is recorded in chat_history and in response, and the stream
   ends at END having run the chat node only. *)
C30_RoutingFallback ==
    \A w \in Workers :
        RoutingFailed(w) =>
            /\ loc[w].values["intent"] = "chat"
            /\ loc[w].values["response"] = [chat_reply |-> "Hi"]
            /\ Last(History(loc[w].values)) = [role |-> "assistant", content |-> "Hi"]
            /\ ran[w] = <<"chat_node">>
            /\ loc[w].next = END
            /\ StreamDone(w)

C30_Witness ==
    \E w \in Workers :
        /\ RoutingFailed(w) /\ "raw_content" \in DOMAIN last[w].res
        /\ "post_draft" \in DOMAIN pre[w].values

(* C2: whenever a stream stops before the review node, the last node it ran
   is the draft or the refinement node, the draft and approval_status of the
   stream's state are that node's output (approval_status pending), and the
   handler returns them; the review node never runs in the stream that
   reached it. *)
C2_PauseBeforeReview ==
    \A w \in Workers :
        /\ (StreamDone(w) /\ loc[w].next = "human_review_node") =>
              /\ ran[w] # <<>>
              /\ Last(ran[w]) \in {"post_node", "refinement_node"}
              /\ "post_draft" \in DOMAIN loc[w].values
              /\ loc[w].values["post_draft"] = last[w].out["post_draft"]
              /\ loc[w].values["approval_status"] = "pending"
              /\ solo[w] => /\ store[Thread(w)] = loc[w]
                            /\ Response(w)["post_draft"] = last[w].out["post_draft"]
                            /\ Response(w)["approval_status"] = "pending"
        /\ (pc[w] = "stream" /\ loc[w].next = "human_review_node") => ran[w] = <<>>
        /\ \A i \in 1..Len(ran[w]) :
              ran[w][i] = "human_review_node" => i = 1

C2_Witness ==
    \E w \in Workers :
        /\ StreamDone(w) /\ solo[w]
        /\ loc[w].next = "human_review_node"
        /\ Last(ran[w]) = "refinement_node"

(* C3: no two requests for the same thread id are in flight together. *)
C3_MutualExclusion ==
    \A v, w \in Workers :
        (v # w /\ Active(v) /\ Active(w)) => Thread(v) # Thread(w)

\* A node raised in the stream of pool thread w in this step.
Fails(w) == pc[w] = "stream" /\ pc'[w] = "idle"

(* C4: when a node raises, the thread's checkpoint is what it was when the
   request came. *)
C4_FailureAtomicity ==
    [][\A w \in Workers : Fails(w) => store'[Thread(w)] = pre[w]]_vars

(* C5: the delivery node is only ever about to run, and has only ever run,
   in a state whose approval_status is approved. *)
C5_DeliveryRequiresApproval ==
    /\ \A t \in Threads :
          store[t].next = "webhook_node" => Approval(store[t].values) = "approved"
    /\ \A w \in Workers :
          /\ loc[w].next = "webhook_node" => Approval(loc[w].values) = "approved"
          /\ (\E i \in 1..Len(ran[w]) : ran[w][i] = "webhook_node")
                => Approval(loc[w].values) = "approved"

C5_Witness ==
    \E w \in Workers : ran[w] # <<>> /\ Last(ran[w]) = "webhook_node"

\* A /process request that found the session paused before review, was not
\* overlapped by another request on its thread, and whose stream has ended.
ReviewRound(w, approve) ==
    /\ StreamDone(w) /\ solo[w]
    /\ req[w].kind = "process" /\ req[w].approve = approve
    /\ PausedBeforeReview(pre[w])

(* C6: feedback on a session paused before review runs the refinement node
   exactly once; the draft is its output, approval_status is pending, the
   feedback is recorded, delivery did not run and the session is paused
   before review again. *)
C6_RefineBranch ==
    \A w \in Workers :
        ReviewRound(w, FALSE) =>
            /\ ran[w] = <<"refinement_node">>
            /\ loc[w].next = "human_review_node"
            /\ store[Thread(w)] = loc[w]
            /\ loc[w].values["post_draft"] = last[w].out["post_draft"]
            /\ loc[w].values["approval_status"] = "pending"
            /\ loc[w].values["user_feedback"] = req[w].user_feedback
            /\ Project(loc[w].values, {"webhook_response"})
                  = Project(pre[w].values, {"webhook_response"})

C6_Witness ==
    \E w \in Workers :
        ReviewRound(w, FALSE) /\ "user_feedback" \in DOMAIN pre[w].values

(* C7: approval of a session paused before review runs the delivery node and
   nothing else, and the same stream ends at END with webhook_response set:
   success when the delivery succeeded, error when it did not. *)
C7_ApproveBranch ==
    \A w \in Workers :
        ReviewRound(w, TRUE) =>
            /\ ran[w] = <<"webhook_node">>
            /\ loc[w].next = END
            /\ store[Thread(w)] = loc[w]
            /\ "webhook_response" \in DOMAIN loc[w].values
            /\ (last[w].hook = "ok")
                  = (loc[w].values["webhook_response"]["status"] = "success")
            /\ (last[w].hook = "error")
                  = (loc[w].values["webhook_response"]["status"] = "error")
            /\ Response(w)["webhook_response"] = loc[w].values["webhook_response"]

C7_Witness ==
    \E w \in Workers : ReviewRound(w, TRUE) /\ last[w].hook = "ok"

(* C8: a stream without input that finds the thread at END stops at once: it
   runs no node, puts no checkpoint, and its state is the checkpoint it
   found. *)
C8_TerminalReentry ==
    [][\A w \in Workers :
          (/\ pc[w] = "stream_first" /\ pc'[w] # "stream_first"
           /\ req[w].kind = "process"
           /\ store[Thread(w)].next = END)
              => (/\ pc'[w] = "get_state"
                  /\ store' = store
                  /\ loc'[w] = store[Thread(w)]
                  /\ ran'[w] = <<>>)]_vars

C8_Witness ==
    \E w \in Workers :
        /\ StreamDone(w) /\ req[w].kind = "process"
        /\ ran[w] = <<>> /\ loc[w].next = END

\* A /chat request on a thread that had no checkpoint, not overlapped, whose
\* stream has ended with an intent that names neither generation path.
ChatOnly(w) ==
    /\ StreamDone(w) /\ solo[w]
    /\ req[w].kind = "chat"
    /\ ~pre[w].exists
    /\ Get(loc[w].values, "intent", "") \notin {"campaign_generation", "post_generation"}

(* C9: such a request runs the chat node only and ends at END; the state
   and the response carry the assistant reply, and post_draft is not set. *)
C9_ChatOnlyPath ==
    \A w \in Workers :
        ChatOnly(w) =>
            /\ ran[w] = <<"chat_node">>
            /\ loc[w].next = END
            /\ store[Thread(w)] = loc[w]
            /\ "post_draft" \notin DOMAIN loc[w].values
            /\ Last(loc[w].values["chat_history"]).role = "assistant"
            /\ loc[w].values["response"]["chat_reply"]
                  = Last(loc[w].values["chat_history"]).content
            /\ Response(w)["response"] = loc[w].values["response"]
            /\ "post_draft" \notin DOMAIN Response(w)

C9_Witness ==
    \E w \in Workers : ChatOnly(w) /\ loc[w].values["intent"] = "other"

\* The one key each conditional edge is said to read.
Reads(node) ==
    CASE node = "chat_node" -> {"intent"}
      [] node = "human_review_node" -> {"approval_status"}
      [] OTHER -> {}

\* Every checkpoint a state holds.
Checkpoints == {store[t] : t \in Threads} \cup {loc[w] : w \in Workers}

(* C10: the next node of a node depends only on the key its edge reads
   (intent for the chat node, approval_status for the review node, nothing
   for the others): the edge gives the same next node on a state and on
   that state cut down to the key it reads. *)
C10_RoutingDeterminism ==
    \A cp \in Checkpoints, n \in Nodes :
        NextNode(n, Project(cp.values, Reads(n))) = NextNode(n, cp.values)

C10_Witness ==
    \E t \in Threads :
        /\ Get(store[t].values, "intent", "") = "post_generation"
        /\ Approval(store[t].values) = "approved"
        /\ "user_feedback" \in DOMAIN store[t].values

\* No pitch request is in flight and one at least has been served.
PitchQuiet ==
    /\ \A k \in Tasks : task[k].pc \in {"idle", "done"}
    /\ \E k \in Tasks : task[k].pc = "done"

\* C26: the temporary max_tokens override is restored under concurrency: in
\* every interleaving of generate-pitch and regenerate-pitch requests, once
\* all requests have completed the shared model's max_tokens is the
\* configured value, and every generation is sent with the max_tokens of its
\* own request's time limit.
C26_OverrideRestored ==
    /\ PitchQuiet => llm_service.max_tokens = LLM_MAX_TOKENS
    /\ \A k \in Tasks :
          task[k].pc = "generating" =>
              task[k].sent_max_tokens = get_time_limit_config(task[k].time_limit)

\* The endpoints that chat with a session of each simulator.
SharkChats == {"chat_with_shark"}
PitchLabChats == {"chat_pitchlab", "voice_chat_pitchlab"}

\* Session id of dict has concluded.
SessionConcluded(dict, id) == id \in DOMAIN dict /\ dict[id].status \in {"invested", "out"}

\* A chat accepted by one of the endpoints is still running on session id.
InFlight(endpoints, id) ==
    \E c \in Pool : /\ call[c].pc # "idle"
                    /\ call[c].endpoint \in endpoints
                    /\ call[c].session_id = id

\* This step accepts a chat, voice-chat or feedback call that names a session
\* which has concluded.
LaterCall == ncalls' = ncalls + 1 /\ arrival'.concluded

\* C27: a pitch session's conclusion is absorbing: a session starts with
\* status active; once a reply has set its status to invested or out, no
\* chat, voice-chat or feedback call that comes later changes its status,
\* messages or history, and a chat call on it does not go on to the model.
C27_ConclusionAbsorbing ==
    [][/\ \A id \in (DOMAIN sessions') \ (DOMAIN sessions) :
             sessions'[id].status = "active"
       /\ \A id \in (DOMAIN pitchlab_sessions') \ (DOMAIN pitchlab_sessions) :
             pitchlab_sessions'[id].status = "active"
       /\ LaterCall =>
             /\ UNCHANGED <<sessions, pitchlab_sessions>>
             /\ arrival'.endpoint \in SharkChats \cup PitchLabChats => call' = call
       /\ \A id \in SessionIds :
             /\ SessionConcluded(sessions, id) /\ ~InFlight(SharkChats, id)
                    => sessions'[id] = sessions[id]
             /\ SessionConcluded(pitchlab_sessions, id) /\ ~InFlight(PitchLabChats, id)
                    => pitchlab_sessions'[id] = pitchlab_sessions[id]
      ]_vars

\* A chat call has been answered on a session that had concluded.
C27_Witness ==
    /\ arrival.concluded
    /\ arrival.endpoint \in SharkChats \cup PitchLabChats
    /\ \/ SessionConcluded(sessions, arrival.session_id)
       \/ SessionConcluded(pitchlab_sessions, arrival.session_id)

====
